---- MODULE Spec2Model ----
(***************************************************************************)
(* Turbine: a single-producer, multi-consumer ring buffer in the style of  *)
(* the LMAX Disruptor.  The Turbine structure (builder and producer) is    *)
(* modelled from lib.rs.  The event processor, the busy-wait strategy and  *)
(* the ring buffer live in other modules of the crate (eventprocessor,     *)
(* waitstrategy, ringbuffer) whose sources are not available; they are     *)
(* modelled from sections 4.1, 4.3 and 4.6 of the specification.           *)
(*                                                                         *)
(* Consumer tokens are the values ep_new returns (0-based).  Sequences of  *)
(* TLA+ are 1-based, so epb[i + 1] / graph[i + 1] is the entry of token i  *)
(* and cursors[k + 1] is the cell at cursor-table index k.                 *)
(***************************************************************************)
EXTENDS Integers, Sequences, FiniteSets, TLC

\* ---------------------------------------------------------------- bounds
\* Largest number of ep_new calls that succeed.
MaxEps == 2
\* Largest number of ep_depends calls that succeed, with the producer and the
\* consumers running (Spec).
MaxDeps == 1
\* Largest number of ep_depends calls that succeed, with no consumer running
\* (SpecOwner).
BuildDeps == 2
\* Largest number of write calls.
MaxPos == 4

\* Ring sizes Turbine::new is called with (powers of two).
RingSizes == {2}

\* The initial value of min_cursor in can_write, 18446744073709551615 in the
\* source.  Only two facts about it are used: it is above every cursor value
\* that can be loaded, and all its low bits are ones.  The model keeps the
\* largest all-ones value a TLC integer can hold.
U64Max == 2147483647

Tokens == 0 .. (MaxEps - 1)

\* ---------------------------------------------------------------- helpers
RECURSIVE BitAnd(_, _)
\* The & of two unsigned integers.
BitAnd(a, b) ==
    IF a = 0 \/ b = 0 THEN 0
    ELSE (a % 2) * (b % 2) + 2 * BitAnd(a \div 2, b \div 2)

\* std::cmp::min
min(a, b) == IF a < b THEN a ELSE b

RECURSIVE MinOf(_)
\* The minimum of a non-empty finite set of integers; U64Max for the empty set
\* (the fold of min starting from the largest value).
MinOf(S) ==
    IF S = {} THEN U64Max
    ELSE LET x == CHOOSE y \in S : TRUE IN min(x, MinOf(S \ {x}))

\* Option<Vec<usize>>
None == [some |-> FALSE, v |-> <<>>]
Some(vec) == [some |-> TRUE, v |-> vec]

\* Slot::new() of the tests: a value no published record carries.
SlotNew == -1

VARIABLES
    finalized,      \* Turbine.finalized
    epb,            \* Turbine.epb: the builder list, one Option<Vec> per token
    graph,          \* Turbine.graph: the sealed adjacency list
    cursors,        \* Turbine.cursors: the cursor table, index 0 is the root
    ring,           \* Turbine.ring: the slots, ring index -> record value
    current_pos,    \* Turbine.current_pos
    size,           \* Turbine.size
    mask,           \* Turbine.mask
    until,          \* Turbine.until
    ppc,            \* where the thread owning the Turbine is
    scan_i,         \* can_write: cursor-table index the scan loads next
    min_cursor,     \* can_write: the local min_cursor
    ret,            \* the last call made on the Turbine and what it returned
    declared,       \* per token, the ids passed to successful ep_depends calls
    epc,            \* per token, the state of its event processor
    batch,          \* per token, the sequences [from, to] given to the handler
    recv            \* per token, the record values its handler was given

turbine == <<finalized, epb, graph, cursors, ring, current_pos, size, mask, until>>
locals == <<scan_i, min_cursor>>
consumers == <<epc, batch, recv>>
vars == <<finalized, epb, graph, cursors, ring, current_pos, size, mask, until,
          ppc, scan_i, min_cursor, ret, declared, epc, batch, recv>>

NoBatch == [from |-> 0, to |-> -1]

\* A faulty construction that starts the cached gate at ring index 0.
InitGateZero ==
    /\ size \in RingSizes
    /\ finalized = FALSE
    /\ epb = <<>>
    /\ graph = <<>>
    /\ cursors = <<>>
    /\ ring = [i \in 0 .. (size - 1) |-> SlotNew]
    /\ current_pos = 0
    /\ mask = size - 1
    /\ until = 0
    /\ ppc = "ready"
    /\ scan_i = 1
    /\ min_cursor = U64Max
    /\ ret = [op |-> "new", ok |-> TRUE, val |-> 0]
    /\ declared = [t \in Tokens |-> <<>>]
    /\ epc = [t \in Tokens |-> "NoHandle"]
    /\ batch = [t \in Tokens |-> NoBatch]
    /\ recv = [t \in Tokens |-> <<>>]

\* Turbine::new(ring_size)
Init ==
    /\ size \in RingSizes
    /\ finalized = FALSE
    /\ epb = <<>>
    /\ graph = <<>>
    /\ cursors = <<>>
    /\ ring = [i \in 0 .. (size - 1) |-> SlotNew]
    /\ current_pos = 0
    /\ mask = size - 1
    /\ until = size - 1
    /\ ppc = "ready"
    /\ scan_i = 1
    /\ min_cursor = U64Max
    /\ ret = [op |-> "new", ok |-> TRUE, val |-> 0]
    /\ declared = [t \in Tokens |-> <<>>]
    /\ epc = [t \in Tokens |-> "NoHandle"]
    /\ batch = [t \in Tokens |-> NoBatch]
    /\ recv = [t \in Tokens |-> <<>>]

\* ------------------------------------------------------------ the builder
Ok(o, x) == [op |-> o, ok |-> TRUE, val |-> x]
Err(o) == [op |-> o, ok |-> FALSE, val |-> 0]

RECURSIVE DepCount(_)
\* How many ids the successful ep_depends calls have stored so far.
DepCount(k) == IF k = 0 THEN 0 ELSE Len(declared[k - 1]) + DepCount(k - 1)

\* ep_new, the branch taken when the graph is sealed: Err(()).
ep_new_sealed ==
    /\ ret' = Err("ep_new")
    /\ UNCHANGED epb

\* A faulty ep_new that returns the length after the push.
ep_new_open_len ==
    /\ epb' = Append(epb, None)
    /\ ret' = Ok("ep_new", Len(epb'))

\* ep_new, the branch taken while building: push None, return len - 1.
ep_new_open ==
    /\ epb' = Append(epb, None)
    /\ ret' = Ok("ep_new", Len(epb') - 1)

\* A faulty ep_new that does not look at `finalized`.
ep_new_unchecked ==
    /\ ppc = "ready"
    /\ ep_new_open
    /\ UNCHANGED <<finalized, graph, cursors, ring, current_pos, size, mask, until,
                   ppc, locals, declared, consumers>>

\* Turbine::ep_new
ep_new ==
    /\ ppc = "ready"
    /\ IF finalized = TRUE THEN ep_new_sealed ELSE ep_new_open
    /\ UNCHANGED <<finalized, graph, cursors, ring, current_pos, size, mask, until,
                   ppc, locals, declared, consumers>>

\* A faulty push that replaces the list instead of extending it.
PushDepReplace(node, dep) == Some(<<dep>>)

\* ep_depends, the match on the builder entry: push onto Some, create from None.
PushDep(node, dep) ==
    IF node.some THEN Some(Append(node.v, dep)) ELSE Some(<<dep>>)

\* A faulty ep_depends that does not look at `finalized`.
ep_depends_unchecked(epb_index, dep) ==
    /\ ppc = "ready"
    /\ IF epb_index >= Len(epb)
       THEN /\ ppc' = "depends_panicked"
            /\ UNCHANGED <<epb, declared, ret>>
       ELSE /\ epb' = [epb EXCEPT ![epb_index + 1] = PushDep(@, dep)]
            /\ declared' = [declared EXCEPT ![epb_index] = Append(@, dep)]
            /\ ret' = Ok("ep_depends", 0)
            /\ UNCHANGED ppc
    /\ UNCHANGED <<finalized, graph, cursors, ring, current_pos, size, mask, until,
                   locals, consumers>>

\* Turbine::ep_depends.  `finalized` is tested first; then the builder entry
\* is taken with get_mut(epb_index), which panics when epb_index is not an
\* index of epb; `dep` is stored as it is, whatever its value.
ep_depends(epb_index, dep) ==
    /\ ppc = "ready"
    /\ IF finalized = TRUE
       THEN /\ ret' = Err("ep_depends")
            /\ UNCHANGED <<epb, declared, ppc>>
       ELSE IF epb_index >= Len(epb)
            THEN /\ ppc' = "depends_panicked"
                 /\ UNCHANGED <<epb, declared, ret>>
            ELSE /\ epb' = [epb EXCEPT ![epb_index + 1] = PushDep(@, dep)]
                 /\ declared' = [declared EXCEPT ![epb_index] = Append(@, dep)]
                 /\ ret' = Ok("ep_depends", 0)
                 /\ UNCHANGED ppc
    /\ UNCHANGED <<finalized, graph, cursors, ring, current_pos, size, mask, until,
                   locals, consumers>>

\* A faulty sealing rule that leaves an undeclared list empty.
SealDepsNoRoot(node) == IF node.some THEN node.v ELSE <<>>

\* finalize_graph, the match on a builder entry: the declared list, or the root.
SealDeps(node) == IF node.some THEN node.v ELSE <<0>>

\* Turbine::finalize_graph
finalize_graph ==
    /\ graph' = [i \in 1 .. Len(epb) |-> SealDeps(epb[i])]
    /\ cursors' = [k \in 1 .. (Len(epb) + 1) |-> 0]
    /\ finalized' = TRUE

\* A faulty guard that seals again on every call.
AlwaysSeal == TRUE

\* ep_finalize, the guard of the call to finalize_graph.
NotYetSealed == finalized = FALSE

\* Turbine::ep_finalize.  The token is not looked at: the first call seals
\* the graph whatever it is, and every call returns
\* EventProcessor::new(ring, graph, cursors, token).  The model runs at most
\* one event processor per token however many handles were returned for it,
\* and `ret` records that a handle was returned, not for which token.
ep_finalize(token) ==
    /\ ppc = "ready"
    /\ IF NotYetSealed THEN finalize_graph ELSE UNCHANGED <<graph, cursors, finalized>>
    /\ epc' = [epc EXCEPT ![token] = IF @ = "NoHandle" THEN "Idle" ELSE @]
    /\ ret' = Ok("ep_finalize", 0)
    /\ UNCHANGED <<epb, ring, current_pos, size, mask, until, ppc, locals, declared,
                   batch, recv>>

\* ----------------------------------------------------------- the producer
\* A faulty ring index that is one slot ahead.
write_pos_ahead(pos, msk) == BitAnd(pos + 1, msk)

\* write: let write_pos = self.current_pos & self.mask
write_pos(pos, msk) == BitAnd(pos, msk)

\* A faulty admission test that uses > where >= is needed.
NotWriteableGt(pos, minc, sz) == pos - minc > sz

\* A faulty admission test that refuses one slot early.
NotWriteableEarly(pos, minc, sz) == pos - minc >= sz - 1

\* The difference of two u64 in a build without overflow checks: it wraps.
WrappingSub(a, b) == IF a >= b THEN a - b ELSE ((a - b) + 1) + U64Max

\* can_write: self.current_pos - min_cursor >= self.size, in u64
NotWriteable(pos, minc, sz) == WrappingSub(pos, minc) >= sz

\* A faulty gate that is one slot ahead of the minimum.
GateOfNext(minc, msk) == BitAnd(IF minc = U64Max THEN 0 ELSE minc + 1, msk)

\* can_write: self.until = min_cursor & self.mask
GateOf(minc, msk) == BitAnd(minc, msk)

\* The start of one can_write call.  When `until` differs from the ring index
\* of current_pos the call returns true at once.  Otherwise the scan starts;
\* with no consumer cursor to load the loop body never runs and `until`
\* becomes min_cursor & mask.
can_write_enter ==
    IF until = BitAnd(current_pos, mask)
    THEN IF Len(cursors) <= 1
         THEN /\ until' = GateOf(U64Max, mask)
              /\ ppc' = "store"
              /\ UNCHANGED locals
         ELSE /\ ppc' = "scan"
              /\ scan_i' = 1
              /\ min_cursor' = U64Max
              /\ UNCHANGED until
    ELSE /\ ppc' = "store"
         /\ UNCHANGED <<until, locals>>

\* Turbine::write, the call: the data written is the sequence number, as in
\* the tests (x.value = i).  The first can_write call starts.
write ==
    /\ ppc = "ready"
    /\ can_write_enter
    /\ ret' = Ok("write_call", current_pos)
    /\ UNCHANGED <<finalized, epb, graph, cursors, ring, current_pos, size, mask,
                   declared, consumers>>

\* A faulty scan that moves the gate at every cursor it loads.
can_write_eager ==
    /\ ppc = "scan"
    /\ LET v == cursors[scan_i + 1]
           m == min(min_cursor, v)
       IN  IF NotWriteable(current_pos, m, size)
           THEN \/ /\ ppc' = "scan"
                   /\ scan_i' = 1
                   /\ min_cursor' = U64Max
                   /\ UNCHANGED until
                \/ /\ m > current_pos
                   /\ ppc' = "overflow_panicked"
                   /\ UNCHANGED <<until, locals>>
           ELSE IF scan_i = Len(cursors) - 1
                THEN /\ until' = GateOf(m, mask)
                     /\ ppc' = "store"
                     /\ scan_i' = 1
                     /\ min_cursor' = U64Max
                ELSE /\ scan_i' = scan_i + 1
                     /\ min_cursor' = m
                     /\ until' = GateOf(m, mask)
                     /\ UNCHANGED ppc
    /\ UNCHANGED <<finalized, epb, graph, cursors, ring, current_pos, size, mask,
                   ret, declared, consumers>>

\* Turbine::can_write, one iteration of the scan: load the next consumer
\* cursor, fold it into min_cursor, and refuse when the ring is full.  A
\* refusal returns false to the busy loop of write, which calls can_write
\* again; the last iteration stores the new `until` and returns true.  When
\* the minimum is above current_pos the u64 subtraction wraps and the call
\* refuses, or, in a build with overflow checks, panics.
can_write ==
    /\ ppc = "scan"
    /\ LET v == cursors[scan_i + 1]
           m == min(min_cursor, v)
       IN  IF NotWriteable(current_pos, m, size)
           THEN \/ /\ ppc' = "scan"
                   /\ scan_i' = 1
                   /\ min_cursor' = U64Max
                   /\ UNCHANGED until
                \/ /\ m > current_pos
                   /\ ppc' = "overflow_panicked"
                   /\ UNCHANGED <<until, locals>>
           ELSE IF scan_i = Len(cursors) - 1
                THEN /\ until' = GateOf(m, mask)
                     /\ ppc' = "store"
                     /\ scan_i' = 1
                     /\ min_cursor' = U64Max
                ELSE /\ scan_i' = scan_i + 1
                     /\ min_cursor' = m
                     /\ UNCHANGED <<until, ppc>>
    /\ UNCHANGED <<finalized, epb, graph, cursors, ring, current_pos, size, mask,
                   ret, declared, consumers>>

\* A faulty write that raises the producer cursor where the slot store
\* belongs, leaving the slot unwritten.
ring_write_published ==
    /\ ppc = "store"
    /\ IF Len(cursors) = 0
       THEN UNCHANGED cursors
       ELSE cursors' = [cursors EXCEPT ![1] = current_pos + 1]
    /\ ppc' = "publish"
    /\ UNCHANGED <<finalized, epb, graph, ring, current_pos, size, mask, until,
                   locals, ret, declared, consumers>>

\* Turbine::write, self.ring.write(write_pos, data)
ring_write ==
    /\ ppc = "store"
    /\ ring' = [ring EXCEPT ![write_pos(current_pos, mask)] = current_pos]
    /\ ppc' = "publish"
    /\ UNCHANGED <<finalized, epb, graph, cursors, current_pos, size, mask, until,
                   locals, ret, declared, consumers>>

\* A faulty publish that stores the ring index instead of the sequence.
write_publish_masked ==
    /\ ppc = "publish"
    /\ current_pos' = current_pos + 1
    /\ IF Len(cursors) = 0
       THEN /\ ppc' = "panicked"
            /\ UNCHANGED <<cursors, ret>>
       ELSE /\ cursors' = [cursors EXCEPT ![1] = BitAnd(current_pos', mask)]
            /\ ppc' = "ready"
            /\ ret' = Ok("write", current_pos')
    /\ UNCHANGED <<finalized, epb, graph, ring, size, mask, until, locals, declared,
                   consumers>>

\* A faulty publish that skips the store when there is no cursor table and
\* returns normally.
write_publish_unsealed ==
    /\ ppc = "publish"
    /\ current_pos' = current_pos + 1
    /\ IF Len(cursors) = 0
       THEN UNCHANGED cursors
       ELSE cursors' = [cursors EXCEPT ![1] = current_pos']
    /\ ppc' = "ready"
    /\ ret' = Ok("write", current_pos')
    /\ UNCHANGED <<finalized, epb, graph, ring, size, mask, until, locals, declared,
                   consumers>>

\* Turbine::write, the increment of current_pos and the store into cursor 0.
\* Before the graph is sealed the cursor table is empty and the index panics.
write_publish ==
    /\ ppc = "publish"
    /\ current_pos' = current_pos + 1
    /\ IF Len(cursors) = 0
       THEN /\ ppc' = "panicked"
            /\ UNCHANGED <<cursors, ret>>
       ELSE /\ cursors' = [cursors EXCEPT ![1] = current_pos']
            /\ ppc' = "ready"
            /\ ret' = Ok("write", current_pos')
    /\ UNCHANGED <<finalized, epb, graph, ring, size, mask, until, locals, declared,
                   consumers>>

\* The tests store into a consumer cursor from the thread that owns the
\* Turbine, standing in for an event processor:
\* t.cursors.get(1).store(1, SeqCst).
cursor_store(k, v) ==
    /\ ppc = "ready"
    /\ k >= 1
    /\ k < Len(cursors)
    /\ cursors' = [cursors EXCEPT ![k + 1] = v]
    /\ UNCHANGED <<finalized, epb, graph, ring, current_pos, size, mask, until,
                   ppc, locals, ret, declared, consumers>>

\* ---------------------------------------------------- the event processor
\* The cursor-table index of the consumer holding `token`.
OwnCursor(token) == token + 1

\* The busy-wait minimum over the cursors named by the adjacency list.
DepMin(token) ==
    LET deps == graph[token + 1]
    IN  MinOf({cursors[deps[j] + 1] : j \in 1 .. Len(deps)})

\* The event processor of `token` finds every index it reads: its list in
\* the graph, its own cursor and the cursors its list names.  A token ep_new
\* never returned, or a stored id past the cursor table, is an index out of
\* bounds: the thread panics at its first wait and takes no further step.
InRange(token) ==
    /\ token < Len(graph)
    /\ OwnCursor(token) < Len(cursors)
    /\ \A j \in 1 .. Len(graph[token + 1]) : graph[token + 1][j] < Len(cursors)

\* The ring-end clamp: the batch starting at sequence `from` ends at the
\* highest available sequence, or at ring index capacity - 1 if it would wrap.
Clamp(from, available) ==
    LET start_index == BitAnd(from, mask)
        end_index == BitAnd(available, mask)
    IN  IF end_index < start_index
        THEN from + (size - 1 - start_index)
        ELSE available

\* EventProcessor::start: Idle -> Waiting.
ep_start(token) ==
    /\ epc[token] = "Idle"
    /\ epc' = [epc EXCEPT ![token] = "Waiting"]
    /\ UNCHANGED <<turbine, ppc, locals, ret, declared, batch, recv>>

\* BusyWait::wait_for returns once the minimum exceeds the own cursor; the
\* batch is the range from the own cursor to the sequence below that
\* minimum, clamped at the ring end.  Waiting -> Processing.
ep_wait_for(token) ==
    /\ epc[token] = "Waiting"
    /\ InRange(token)
    /\ LET own == cursors[OwnCursor(token) + 1]
           m == DepMin(token)
       IN  /\ m > own
           /\ batch' = [batch EXCEPT ![token] =
                            [from |-> own, to |-> Clamp(own, m - 1)]]
    /\ epc' = [epc EXCEPT ![token] = "Processing"]
    /\ UNCHANGED <<turbine, ppc, locals, ret, declared, recv>>

\* The values of the slots of a batch, in ring order.
Slice(b) == [k \in 1 .. (b.to - b.from + 1) |-> ring[BitAnd(b.from + k - 1, mask)]]

\* The handler runs on the slice.  Processing -> Publishing.
ep_handler(token) ==
    /\ epc[token] = "Processing"
    /\ recv' = [recv EXCEPT ![token] = @ \o Slice(batch[token])]
    /\ epc' = [epc EXCEPT ![token] = "Publishing"]
    /\ UNCHANGED <<turbine, ppc, locals, ret, declared, batch>>

\* The consumer stores its cursor past the batch, then loops or exits.
\* `s` is what the handler returned (TRUE for stop); nothing reads it before
\* this step, so it is drawn here.  Publishing -> Waiting | Stopped.
ep_publish(token, s) ==
    /\ epc[token] = "Publishing"
    /\ cursors' = [cursors EXCEPT ![OwnCursor(token) + 1] = batch[token].to + 1]
    /\ epc' = [epc EXCEPT ![token] = IF s THEN "Stopped" ELSE "Waiting"]
    /\ batch' = [batch EXCEPT ![token] = NoBatch]
    /\ UNCHANGED <<finalized, epb, graph, ring, current_pos, size, mask, until,
                   ppc, locals, ret, declared, recv>>

\* ------------------------------------------------------ the specifications
\* The calls that build and seal the graph.  The guards keep the model
\* finite: a call that would grow the builder past a bound is not made.
BuilderOpen(maxdeps) ==
    \/ (~finalized /\ Len(epb) < MaxEps) /\ ep_new
    \/ /\ ~finalized
       /\ DepCount(MaxEps) < maxdeps
       /\ \E epb_index \in Tokens, dep \in Tokens : ep_depends(epb_index, dep)
    \/ \E token \in Tokens : ep_finalize(token)

\* The calls that try to change a sealed graph.  ep_depends tests finalized
\* before it looks at its arguments, so on a sealed graph every pair of
\* arguments gives the step of the pair (0, 0).
BuilderSealed ==
    \/ finalized /\ ep_new
    \/ finalized /\ ep_depends(0, 0)

\* The producer: write is called MaxPos times at most.
Producer ==
    \/ current_pos < MaxPos /\ write
    \/ can_write
    \/ ring_write
    \/ write_publish

\* The consumer threads.
Consumers ==
    \/ \E token \in Tokens : ep_start(token)
    \/ \E token \in Tokens : ep_wait_for(token)
    \/ \E token \in Tokens : ep_handler(token)
    \/ \E token \in Tokens, s \in BOOLEAN : ep_publish(token, s)

Next == BuilderOpen(MaxDeps) \/ BuilderSealed \/ Producer \/ Consumers

\* The whole system, used as documented: one thread owns the Turbine, builds
\* and seals the graph and then writes; every event processor runs on a
\* thread of its own.
Spec == Init /\ [][Next]_vars

\* The cursor stores of the tests: into cursor 1, raising it, to a value the
\* producer can reach or to the one above.
TestStores ==
    /\ Len(cursors) >= 2
    /\ \E v \in 1 .. (MaxPos + 1) : v > cursors[2] /\ cursor_store(1, v)

NextOwner == BuilderOpen(BuildDeps) \/ BuilderSealed \/ Producer \/ TestStores

\* The thread that owns the Turbine taken alone, with longer dependency lists,
\* with calls on the builder after sealing and with the cursor stores of the
\* tests; no event processor is started.
SpecOwner == Init /\ [][NextOwner]_vars

\* The cursor-table indices of the consumers.
ConsumerIdx == 1 .. (Len(cursors) - 1)

\* The minimum over the consumer cursors (cursor table without the root).
MinConsumer == MinOf({cursors[k + 1] : k \in ConsumerIdx})

\* The tokens of the sealed graph.
Sealed == 0 .. (Len(graph) - 1)

TypeOK ==
    /\ finalized \in BOOLEAN
    /\ ppc \in {"ready", "scan", "store", "publish", "panicked",
                "depends_panicked", "overflow_panicked"}
    /\ current_pos \in 0 .. U64Max
    /\ mask = size - 1
    /\ \A k \in 1 .. Len(cursors) : cursors[k] \in 0 .. U64Max
    /\ finalized => Len(cursors) = Len(graph) + 1

\* ------------------------------------------------------------- the claims

\* C1: once the graph is sealed the producer cursor is never more than
\* `size` ahead of the slowest consumer cursor, and write neither stores a
\* record nor publishes while current_pos - min consumer cursor >= size.
C1_CapacityBound ==
    (finalized /\ ConsumerIdx # {}) =>
        /\ cursors[1] - MinConsumer <= size
        /\ ppc \in {"store", "publish"} => current_pos - MinConsumer < size

\* C1 witness: the ring is exactly full and the producer is stalled in the scan.
C1_Witness ==
    /\ finalized
    /\ ConsumerIdx # {}
    /\ ppc = "scan"
    /\ cursors[1] - MinConsumer = size
    /\ current_pos - MinConsumer = size

\* C2: a slot is not reused while a consumer has still to read it: for every
\* consumer, every sequence s from its cursor up to the producer cursor has
\* slot s & mask holding the record published at s, and so has every slot of
\* a batch a handler is running on.
C2_NoOverwrite ==
    /\ \A k \in ConsumerIdx : \A s \in cursors[k + 1] .. (cursors[1] - 1) :
           ring[BitAnd(s, mask)] = s
    /\ \A t \in Tokens : epc[t] = "Processing" =>
           \A s \in batch[t].from .. batch[t].to : ring[BitAnd(s, mask)] = s

\* C2 witness: a handler runs on a batch of a later lap while the producer
\* has just stored the next record into a slot that consumer has released.
C2_Witness ==
    \E t \in Tokens :
        /\ epc[t] = "Processing"
        /\ batch[t].from >= size
        /\ ppc = "publish"
        /\ current_pos >= size

\* C3: the values a handler has been given, over all its batches in order,
\* are 0, 1, 2, ... without gap or duplicate.
C3_MonotonicDelivery ==
    \A t \in Tokens : \A k \in 1 .. Len(recv[t]) : recv[t][k] = k - 1

\* C3 witness: a consumer has been given more records than the ring holds,
\* in more than one batch.
C3_Witness ==
    \E t \in Tokens :
        /\ Len(recv[t]) > size
        /\ epc[t] = "Waiting"

\* C4: a dependent consumer never outruns the consumer it was declared to
\* depend on: for ep_depends(dependent, upstream), upstream a consumer
\* ep_new created, the cursor of the dependent is at most the cursor of the
\* upstream.
C4_DependencyRespect ==
    finalized =>
        \A t \in Sealed : \A j \in 1 .. Len(declared[t]) :
            declared[t][j] \in Sealed =>
                cursors[OwnCursor(t) + 1] <= cursors[OwnCursor(declared[t][j]) + 1]

\* C5: no consumer cursor, and no batch handed to a handler, passes the
\* producer cursor.
C5_ProducerAhead ==
    /\ \A k \in ConsumerIdx : cursors[k + 1] <= cursors[1]
    /\ \A t \in Tokens : epc[t] \in {"Processing", "Publishing"} =>
           batch[t].to < cursors[1]

\* C5 witness: a consumer has caught up with a producer that has published.
C5_Witness ==
    \E k \in ConsumerIdx : cursors[k + 1] = cursors[1] /\ cursors[1] >= 2

\* C6: once the cursor table exists no cursor ever goes down, and the
\* producer cursor only ever moves up by exactly 1.
C6_CursorsMonotonic ==
    [][Len(cursors) > 0 =>
          /\ Len(cursors') = Len(cursors)
          /\ \A k \in 1 .. Len(cursors) : cursors'[k] >= cursors[k]
          /\ cursors'[1] \in {cursors[1], cursors[1] + 1}]_vars

\* C6 witness: the producer has gone round the ring and a consumer followed.
C6_Witness ==
    /\ Len(cursors) > 1
    /\ cursors[1] > size
    /\ \E k \in ConsumerIdx : cursors[k + 1] >= size

\* C7: on a sealed graph ep_new returns Err and adds no consumer.
C7_EpNewSealed ==
    [][(finalized /\ ep_new) =>
          /\ ret' = Err("ep_new")
          /\ UNCHANGED <<epb, graph, cursors, finalized>>]_vars

\* C7 witness: ep_new has failed, with room left in the builder, after
\* records were published.
C7_Witness ==
    /\ finalized
    /\ ret = Err("ep_new")
    /\ Len(epb) < MaxEps
    /\ cursors[1] > 0

\* C8: on a sealed graph ep_depends returns Err and changes nothing, and the
\* adjacency list and the shape of the cursor table never change again.
C8_EpDependsSealed ==
    [][/\ \A i \in Tokens, d \in Tokens :
            (finalized /\ ep_depends(i, d)) =>
                /\ ret' = Err("ep_depends")
                /\ UNCHANGED <<epb, declared, graph, cursors, finalized>>
       /\ finalized =>
            /\ finalized'
            /\ graph' = graph
            /\ Len(cursors') = Len(cursors)]_vars

\* C8 witness: ep_depends has failed after records were published.
C8_Witness ==
    /\ finalized
    /\ ret = Err("ep_depends")
    /\ cursors[1] > 0

\* C9: only the first ep_finalize seals; a later one returns a handle and
\* leaves the adjacency list and every cursor value as they are.
C9_FinalizeIdempotent ==
    [][\A t \in Tokens :
          /\ (finalized /\ ep_finalize(t)) =>
                /\ UNCHANGED <<graph, cursors, finalized, epb>>
                /\ ret' = Ok("ep_finalize", 0)
          /\ (~finalized /\ ep_finalize(t)) =>
                /\ finalized'
                /\ Len(graph') = Len(epb)
                /\ cursors' = [k \in 1 .. (Len(epb) + 1) |-> 0]]_vars

\* C9 witness: ep_finalize has returned after the producer has written and a
\* consumer has advanced.
C9_Witness ==
    /\ ret = Ok("ep_finalize", 0)
    /\ cursors[1] > 0
    /\ \E k \in ConsumerIdx : cursors[k + 1] > 0

\* C10: the sealed list of a consumer is the list of ids passed to
\* ep_depends for it, in call order, if there is one, and <<0>> otherwise.
C10_SealingRule ==
    finalized =>
        /\ Len(graph) = Len(epb)
        /\ \A t \in Sealed :
               graph[t + 1] = IF declared[t] # <<>> THEN declared[t] ELSE <<0>>

\* C10 witness: a sealed graph with a consumer declared to depend on two
\* different ids and a consumer with no declared dependency.
C10_Witness ==
    /\ finalized
    /\ \E t \in Sealed :
           /\ Len(declared[t]) = 2
           /\ declared[t][1] # declared[t][2]
           /\ graph[t + 1] = declared[t]
    /\ \E t \in Sealed : declared[t] = <<>> /\ graph[t + 1] = <<0>>

\* The producer is stalled: it is in the scan and the load it is about to
\* make sends can_write back to write with false.
Stalled ==
    /\ ppc = "scan"
    /\ NotWriteable(current_pos, min(min_cursor, cursors[scan_i + 1]), size)

\* The producer is inside a write call.
InWrite == ppc \in {"scan", "store", "publish"}

\* C11: every id stored as a dependency denotes the cursor of the consumer
\* it was returned for, a cursor-table index in 1 .. M; none denotes index 0,
\* the producer cursor.
C11_IdsPastRoot ==
    finalized =>
        \A t \in Sealed : \A j \in 1 .. Len(declared[t]) :
            /\ graph[t + 1][j] = OwnCursor(declared[t][j])
            /\ graph[t + 1][j] \in ConsumerIdx

\* C12 as stated: with every consumer cursor at 0 the write number `size`
\* does not complete, and with one consumer whose cursor is 1 the producer
\* cursor does not pass `size`.
C12_FillBoundaryStated ==
    (finalized /\ ConsumerIdx # {}) =>
        /\ MinConsumer = 0 => cursors[1] <= size - 1
        /\ (Len(cursors) = 2 /\ cursors[2] = 1) => cursors[1] <= size

\* C12 as amended: with every consumer cursor at 0, `size` writes complete
\* without a stall and write number size + 1 stays in the scan; with one
\* consumer whose cursor is 1, the write at sequence `size` completes without
\* a stall and the write at sequence size + 1 stays in the scan.
C12_FillBoundary ==
    (finalized /\ ConsumerIdx # {}) =>
        /\ MinConsumer = 0 =>
               /\ cursors[1] <= size
               /\ current_pos < size => ~Stalled
               /\ (current_pos = size /\ InWrite) => ppc = "scan"
        /\ (Len(cursors) = 2 /\ cursors[2] = 1) =>
               /\ cursors[1] <= size + 1
               /\ current_pos <= size => ~Stalled
               /\ (current_pos = size + 1 /\ InWrite) => Stalled

\* C12 witness: one consumer with its cursor at 1, size + 1 writes completed
\* and the next write stalled.
C12_Witness ==
    /\ finalized
    /\ Len(cursors) = 2
    /\ cursors[2] = 1
    /\ cursors[1] = size + 1
    /\ Stalled

\* C13: whenever current_pos - min consumer cursor < size the producer is
\* not stalled: no can_write call of a write sends it back to spin.
C13_AdmissionProgress ==
    (finalized /\ ConsumerIdx # {} /\ current_pos - MinConsumer < size) => ~Stalled

\* C13 witness: on a later lap the scan has admitted the write that fills
\* the ring, one slot short of the slowest consumer.
C13_Witness ==
    /\ finalized
    /\ ConsumerIdx # {}
    /\ ppc = "store"
    /\ until = BitAnd(MinConsumer, mask)
    /\ MinConsumer >= 1
    /\ current_pos = MinConsumer + size - 1

\* The consumer threads with handlers that always return continue.
ConsumersContinue ==
    \/ \E token \in Tokens : ep_start(token)
    \/ \E token \in Tokens : ep_wait_for(token)
    \/ \E token \in Tokens : ep_handler(token)
    \/ \E token \in Tokens : ep_publish(token, FALSE)

NextLive == BuilderOpen(MaxDeps) \/ BuilderSealed \/ Producer \/ ConsumersContinue

\* Every thread is scheduled fairly: the producer thread takes a step of
\* write whenever it can, and so does the thread of every event processor.
FairThreads ==
    /\ WF_vars(Producer)
    /\ \A token \in Tokens :
           WF_vars(ep_wait_for(token) \/ ep_handler(token) \/ ep_publish(token, FALSE))

\* The system with handlers that keep returning continue, under fair
\* scheduling of the producer thread and of the event processor threads.
SpecLive == Init /\ [][NextLive]_vars /\ FairThreads

\* The consumers `token` was declared to depend on.
DependsOn(token) == {declared[token][j] : j \in 1 .. Len(declared[token])}

\* The consumers reachable from S along at most n declared edges.
RECURSIVE Upstream(_, _)
Upstream(S, n) ==
    IF n = 0 THEN S ELSE Upstream(S \cup UNION {DependsOn(u) : u \in S}, n - 1)

\* The declared dependencies form a graph over the consumers ep_new created,
\* and it has no cycle.
DeclaredAcyclic ==
    /\ \A t \in Tokens : \A d \in DependsOn(t) : d < Len(epb)
    /\ \A t \in Tokens : t \notin Upstream(DependsOn(t), MaxEps)

\* The graph is sealed and every consumer's loop is running.
AllRunning ==
    /\ finalized
    /\ ConsumerIdx # {}
    /\ \A t \in Sealed : epc[t] \in {"Waiting", "Processing", "Publishing"}

\* C14: with an acyclic declared graph and every consumer running, every
\* write call eventually returns and every published sequence is eventually
\* delivered to every consumer.
C14_Liveness ==
    /\ (AllRunning /\ DeclaredAcyclic /\ InWrite) ~> (ppc = "ready")
    /\ \A n \in 1 .. MaxPos :
           (AllRunning /\ DeclaredAcyclic /\ cursors[1] >= n)
               ~> (\A t \in Sealed : Len(recv[t]) >= n)

\* The consumer threads with handlers that return stop.
ConsumersStop ==
    \/ \E token \in Tokens : ep_start(token)
    \/ \E token \in Tokens : ep_wait_for(token)
    \/ \E token \in Tokens : ep_handler(token)
    \/ \E token \in Tokens : ep_publish(token, TRUE)

NextStop == BuilderOpen(MaxDeps) \/ BuilderSealed \/ Producer \/ ConsumersStop

\* The thread of an event processor, once it holds a batch, runs the handler
\* and the steps after it.
FairStop ==
    \A token \in Tokens : WF_vars(ep_handler(token) \/ ep_publish(token, TRUE))

\* The system with handlers that return stop on their first batch.
SpecStop == Init /\ [][NextStop]_vars /\ FairStop

\* C15: a consumer whose handler returns stop exits its loop; and once a
\* consumer has stopped with cursor c the producer cursor never passes
\* c + size, the slots from c on are not overwritten and write never fails:
\* the producer stays in the scan.
C15_Termination ==
    /\ \A t \in Tokens : (epc[t] = "Processing") ~> (epc[t] = "Stopped")
    /\ [](\A t \in Sealed : epc[t] = "Stopped" =>
              /\ cursors[1] <= cursors[OwnCursor(t) + 1] + size
              /\ \A s \in cursors[OwnCursor(t) + 1] .. (cursors[1] - 1) :
                     ring[BitAnd(s, mask)] = s
              /\ ppc # "panicked"
              /\ (InWrite /\ current_pos = cursors[OwnCursor(t) + 1] + size) => ppc = "scan")

\* C15 witness: a consumer has stopped with cursor c >= 1 and the producer
\* is stalled on the write of sequence c + size.
C15_Witness ==
    \E t \in Sealed :
        /\ epc[t] = "Stopped"
        /\ cursors[OwnCursor(t) + 1] >= 1
        /\ current_pos = cursors[OwnCursor(t) + 1] + size
        /\ Stalled

\* C16: every batch a handler is given is non-empty and holds only sequences
\* that are published and that every consumer it was declared to depend on
\* has passed; and the lengths of a consumer's batches sum to the number of
\* records it has consumed.
C16_Batches ==
    (finalized /\ DeclaredAcyclic) =>
        \A t \in Sealed :
            /\ epc[t] \in {"Processing", "Publishing"} =>
                   /\ batch[t].from <= batch[t].to
                   /\ batch[t].to < cursors[1]
                   /\ \A d \in DependsOn(t) \cap Sealed :
                          batch[t].to < cursors[OwnCursor(d) + 1]
            /\ Len(recv[t]) = IF epc[t] = "Publishing"
                              THEN batch[t].to + 1
                              ELSE cursors[OwnCursor(t) + 1]

\* The moves of an event processor's state machine.
Transitions ==
    { <<"NoHandle", "Idle">>, <<"Idle", "Waiting">>, <<"Waiting", "Processing">>,
      <<"Processing", "Publishing">>, <<"Publishing", "Waiting">>,
      <<"Publishing", "Stopped">> }

\* C17: a consumer changes state only along Idle -> Waiting -> Processing ->
\* Publishing -> (Waiting | Stopped); the step into Stopped stores the end of
\* the batch just handled in its cursor; and from Stopped on its state, its
\* cursor and what its handler has received never change.
C17_StopSemantics ==
    [][\A t \in Tokens :
          /\ epc'[t] # epc[t] => <<epc[t], epc'[t]>> \in Transitions
          /\ (epc[t] = "Publishing" /\ epc'[t] = "Stopped") =>
                /\ cursors'[OwnCursor(t) + 1] = batch[t].to + 1
                /\ cursors'[OwnCursor(t) + 1] > cursors[OwnCursor(t) + 1]
          /\ epc[t] = "Stopped" =>
                /\ epc'[t] = "Stopped"
                /\ recv'[t] = recv[t]
                /\ batch'[t] = batch[t]
                /\ cursors'[OwnCursor(t) + 1] = cursors[OwnCursor(t) + 1]]_vars

\* C17 witness: a consumer has stopped after its second batch while records
\* it has not received are published.
C17_Witness ==
    \E t \in Sealed :
        /\ epc[t] = "Stopped"
        /\ cursors[OwnCursor(t) + 1] >= 2
        /\ Len(recv[t]) = cursors[OwnCursor(t) + 1]
        /\ cursors[1] > cursors[OwnCursor(t) + 1]

\* C18: after sealing, outside a write call current_pos equals the producer
\* cursor; both are 0 at sealing, the return of a write raises both by
\* exactly 1 and no other step changes either.
C18_PositionCounts ==
    /\ []((finalized /\ ppc = "ready") => current_pos = cursors[1])
    /\ [][/\ (~finalized /\ finalized') => (current_pos' = 0 /\ cursors'[1] = 0)
          /\ finalized =>
                IF ppc = "publish" /\ ppc' = "ready"
                THEN /\ current_pos' = current_pos + 1
                     /\ cursors'[1] = cursors[1] + 1
                ELSE /\ current_pos' = current_pos
                     /\ cursors'[1] = cursors[1]]_vars

\* C18 witness: a write past the first lap has just returned.
C18_Witness ==
    /\ finalized
    /\ ppc = "ready"
    /\ ret = Ok("write", current_pos)
    /\ current_pos = size + 1
    /\ cursors[1] = size + 1

\* The dependency list with every id declared once: later repeats dropped.
RECURSIVE Once(_)
Once(deps) ==
    IF deps = <<>> THEN <<>>
    ELSE LET front == SubSeq(deps, 1, Len(deps) - 1)
             last == deps[Len(deps)]
         IN  IF \E j \in 1 .. Len(front) : front[j] = last
             THEN Once(front)
             ELSE Append(Once(front), last)

\* The minimum over the cursors a dependency list names, taken entry by entry.
RECURSIVE FoldMin(_)
FoldMin(deps) ==
    IF deps = <<>> THEN U64Max
    ELSE min(cursors[Head(deps) + 1], FoldMin(Tail(deps)))

\* C19: the window of a consumer, the minimum over the cursors its sealed
\* list names, is the window of the list with every dependency declared once.
C19_DuplicateEdges ==
    finalized =>
        \A t \in Sealed : (declared[t] # <<>> /\ InRange(t)) =>
            DepMin(t) = FoldMin(Once(declared[t]))

\* C19 witness: a sealed consumer with the same dependency declared twice,
\* and a window that has moved.
C19_Witness ==
    /\ finalized
    /\ \E t \in Sealed :
           /\ Len(declared[t]) = 2
           /\ declared[t][1] = declared[t][2]
           /\ Len(Once(declared[t])) = 1
           /\ InRange(t)
           /\ DepMin(t) >= 1

\* C20: whenever the producer is about to call write and the cached gate
\* lets can_write admit it without a scan (until # current_pos & mask),
\* current_pos - min consumer cursor < size.
C20_CachedGate ==
    (finalized /\ ConsumerIdx # {} /\ ppc = "ready"
        /\ until # BitAnd(current_pos, mask)) =>
        current_pos - MinConsumer < size

\* C20 witness: after a rescan on a later lap the gate admits, without a
\* scan, the write that fills the ring.
C20_Witness ==
    /\ finalized
    /\ ConsumerIdx # {}
    /\ ppc = "ready"
    /\ current_pos < MaxPos
    /\ until # BitAnd(current_pos, mask)
    /\ current_pos >= size
    /\ current_pos - MinConsumer = size - 1

\* C21 as stated: the cached gate is ring index 0 until the first write is
\* called, and the first write is admitted only after a scan of the consumer
\* cursors has recomputed the gate.
C21_InitialScanStated ==
    /\ (current_pos = 0 /\ ppc = "ready") => until = 0
    /\ (finalized /\ ConsumerIdx # {} /\ current_pos = 0 /\ ppc = "store") =>
           until = GateOf(MinConsumer, mask)

\* C21 as amended: the cached gate starts at ring index size - 1, so the
\* first write is admitted without a scan; no scan is made before the write
\* of sequence size - 1, and the gate keeps its initial value until then.
C21_InitialGate ==
    /\ current_pos < size - 1 => until = size - 1
    /\ (current_pos = 0 /\ InWrite /\ size > 1) => ppc # "scan"
    /\ ppc = "scan" => current_pos >= size - 1

\* C21 witness: with a consumer sealed, the first write has been admitted
\* with the gate still at its initial value.
C21_Witness ==
    /\ finalized
    /\ ConsumerIdx # {}
    /\ current_pos = 0
    /\ ppc = "store"
    /\ until = size - 1
    /\ until # GateOf(MinConsumer, mask)

\* C22: inside a write the producer cursor is not raised before the slot is
\* stored: while the write is in progress the cursor still equals
\* current_pos, at the publish step the slot already holds the record, and
\* every sequence from the slowest consumer's cursor up to the producer
\* cursor is in its slot.
C22_WriteThenPublish ==
    finalized =>
        /\ InWrite => cursors[1] = current_pos
        /\ ppc = "publish" => ring[BitAnd(current_pos, mask)] = current_pos
        /\ \A s \in 0 .. (cursors[1] - 1) :
               s >= MinConsumer => ring[BitAnd(s, mask)] = s

\* C22 witness: on a later lap the slot is stored and the cursor not yet
\* raised, with a consumer that has not read the slot's previous record's
\* successor.
C22_Witness ==
    /\ finalized
    /\ ConsumerIdx # {}
    /\ ppc = "publish"
    /\ current_pos >= size
    /\ cursors[1] = current_pos
    /\ ring[BitAnd(current_pos, mask)] = current_pos
    /\ MinConsumer < current_pos

\* C23: while the handler of a consumer runs on the batch [a, b] the
\* consumer's cursor is a, the slots of a .. b still hold their records, and
\* the producer is admitted to no sequence from a + size on; a consumer's
\* cursor never passes a sequence its handler has not returned from.
C23_HandlerBeforeCursor ==
    finalized =>
        \A t \in Sealed :
            /\ cursors[OwnCursor(t) + 1] <= Len(recv[t])
            /\ epc[t] = "Processing" =>
                   /\ cursors[OwnCursor(t) + 1] = batch[t].from
                   /\ Len(recv[t]) = batch[t].from
                   /\ \A s \in batch[t].from .. batch[t].to :
                          ring[BitAnd(s, mask)] = s
                   /\ cursors[1] <= batch[t].from + size
                   /\ ppc \in {"store", "publish"} =>
                          current_pos < batch[t].from + size

\* C23 witness: a handler runs on a batch of two records while the producer
\* is stalled on the sequence that would reuse the batch's first slot.
C23_Witness ==
    \E t \in Sealed :
        /\ epc[t] = "Processing"
        /\ batch[t].to > batch[t].from
        /\ current_pos = batch[t].from + size
        /\ Stalled

\* C24: the ring indices of a batch do not wrap: start index <= end index
\* <= size - 1 and the batch is as long as the distance between them; a
\* batch starts at the sequence after the last one delivered, so what a cut
\* leaves behind comes next, nothing lost and nothing repeated.
C24_RingEndClamp ==
    finalized =>
        \A t \in Sealed :
            /\ epc[t] \in {"Processing", "Publishing"} =>
                   /\ BitAnd(batch[t].from, mask) <= BitAnd(batch[t].to, mask)
                   /\ BitAnd(batch[t].to, mask) <= size - 1
                   /\ batch[t].to - batch[t].from =
                          BitAnd(batch[t].to, mask) - BitAnd(batch[t].from, mask)
            /\ epc[t] = "Processing" => batch[t].from = Len(recv[t])
            /\ epc[t] = "Publishing" => batch[t].to + 1 = Len(recv[t])
            /\ \A k \in 1 .. Len(recv[t]) : recv[t][k] + 1 = k

\* C24 witness: a batch was cut at the last ring index while a later
\* sequence was available, and the consumer has already received records.
C24_Witness ==
    \E t \in Sealed :
        /\ epc[t] = "Processing"
        /\ batch[t].from >= 1
        /\ BitAnd(batch[t].to, mask) = size - 1
        /\ batch[t].to + 1 < DepMin(t)

\* C25: the wait of a consumer returns only when the minimum over its
\* dependency cursors is above its own cursor, and the batch then runs from
\* its cursor to the sequence below that minimum, or to the last ring index
\* when that comes first; it is never shorter.
C25_LargestBatch ==
    [][\A t \in Tokens :
          (epc[t] = "Waiting" /\ epc'[t] = "Processing") =>
              LET own == cursors[OwnCursor(t) + 1]
                  m == DepMin(t)
                  ringEnd == own + (size - 1 - BitAnd(own, mask))
              IN  /\ m > own
                  /\ batch'[t].from = own
                  /\ batch'[t].to = min(m - 1, ringEnd)]_vars

\* C25 witness: a consumer holds a batch of more than one record that
\* starts past sequence 0.
C25_Witness ==
    \E t \in Sealed :
        /\ epc[t] = "Processing"
        /\ batch[t].from >= size
        /\ batch[t].to - batch[t].from + 1 = size

\* C26: after sealing, a step of write leaves every consumer cursor, the
\* adjacency list and every slot other than slot[current_pos & mask] as they
\* were; a step of a consumer leaves the producer cursor, current_pos, the
\* gate, every slot and every other consumer's cursor as they were.  (Each
\* step of a consumer changes its state.)
C26_SingleWriterFrame ==
    [][finalized =>
          /\ (write \/ can_write \/ ring_write \/ write_publish) =>
                /\ \A k \in ConsumerIdx : cursors'[k + 1] = cursors[k + 1]
                /\ Len(cursors') = Len(cursors)
                /\ UNCHANGED <<graph, finalized, epb, size, mask>>
                /\ \A i \in 0 .. (size - 1) :
                       i # BitAnd(current_pos, mask) => ring'[i] = ring[i]
          /\ \A t \in Tokens :
                (/\ epc'[t] # epc[t]
                 /\ \/ ep_start(t) \/ ep_wait_for(t) \/ ep_handler(t)
                    \/ \E s \in BOOLEAN : ep_publish(t, s)) =>
                    /\ cursors'[1] = cursors[1]
                    /\ UNCHANGED <<ring, current_pos, until, graph>>
                    /\ \A k \in ConsumerIdx :
                           k # OwnCursor(t) => cursors'[k + 1] = cursors[k + 1]]_vars

\* C26 witness: on a later lap the producer has just stored a slot while
\* two consumers stand at different cursors.
C26_Witness ==
    /\ finalized
    /\ Len(cursors) = 3
    /\ cursors[2] # cursors[3]
    /\ ppc = "publish"
    /\ current_pos >= size
    /\ ring[BitAnd(current_pos, mask)] = current_pos

\* C27: while a write is in the scan, stalled or not, nothing of it shows:
\* the gate is still the ring index of current_pos, the producer cursor is
\* still current_pos, and the slots still hold the last `size` records, the
\* slot the write is waiting for holding the record one lap back.
C27_StallNoEffect ==
    (finalized /\ ppc = "scan") =>
        /\ until = BitAnd(current_pos, mask)
        /\ cursors[1] = current_pos
        /\ \A s \in 0 .. (current_pos - 1) :
               s >= current_pos - size => ring[BitAnd(s, mask)] = s
        /\ Stalled =>
               /\ current_pos >= size
               /\ ring[BitAnd(current_pos, mask)] = current_pos - size

\* C27 witness: the second consumer of the scan triggers the refusal, the
\* first one having moved on.
C27_Witness ==
    /\ finalized
    /\ ppc = "scan"
    /\ scan_i = 2
    /\ min_cursor > cursors[3]
    /\ Stalled

\* C28: a successful ep_new returns the number of consumers created before
\* it, so the n-th returns n - 1; once sealed, the adjacency list has one
\* entry per consumer, entry i being what was declared for id i (or the root
\* alone), and the cursor table has one cursor more; the step that seals
\* leaves every cursor at 0.
C28_IdsAndTables ==
    /\ []((ret.op = "ep_new" /\ ret.ok) =>
              /\ ~finalized
              /\ ret.val = Len(epb) - 1)
    /\ [](finalized =>
              /\ Len(graph) = Len(epb)
              /\ Len(cursors) = Len(epb) + 1
              /\ \A i \in 0 .. (Len(epb) - 1) :
                     graph[i + 1] = IF declared[i] = <<>> THEN <<0>> ELSE declared[i])
    /\ [][(~finalized /\ finalized') =>
              /\ Len(cursors') = Len(epb) + 1
              /\ \A k \in 1 .. Len(cursors') : cursors'[k] = 0]_vars

\* C28 witness: MaxEps consumers sealed by the first ep_finalize, one with a
\* declared list and one without.
C28_Witness ==
    /\ finalized
    /\ ret = Ok("ep_finalize", 0)
    /\ current_pos = 0
    /\ Len(epb) = MaxEps
    /\ Len(cursors) = MaxEps + 1
    /\ \E t \in Sealed : declared[t] # <<>>
    /\ \E t \in Sealed : declared[t] = <<>>

\* C29: before sealing the cursor table is empty and no write has returned;
\* a write called then is admitted without a scan, and it ends in a panic at
\* the cursor store with the slot stored and current_pos raised to 1.
C29_WriteBeforeSeal ==
    /\ ~finalized =>
           /\ cursors = <<>>
           /\ ret.op # "write"
           /\ ppc # "scan"
           /\ ppc # "panicked" => current_pos = 0
    /\ ppc = "panicked" =>
           /\ ~finalized
           /\ current_pos = 1
           /\ ring[BitAnd(0, mask)] = 0
           /\ ret = Ok("write_call", 0)

\* C29 witness: a write called on an unsealed Turbine with consumers
\* created has panicked.
C29_Witness ==
    /\ ppc = "panicked"
    /\ Len(epb) >= 1
    /\ ~finalized
    /\ current_pos = 1
    /\ ring[0] = 0

====
